---- MODULE Spec2Model ----
(***************************************************************************)
(* A model of the VK group collector:                                      *)
(*   - VKGroupParser (src/vk_parser.py): the API client _make_request,     *)
(*     get_group_info, get_wall_posts, get_post_comments and the           *)
(*     collection loop parse_group_data;                                   *)
(*   - the dashboard's start_parsing handler and run_parsing worker        *)
(*     (src/web_interface.py) with the shared parsing_status record.       *)
(* ParseSpec runs one call of parse_group_data against a provider whose    *)
(* replies are chosen nondeterministically; WebSpec interleaves request    *)
(* handlers and worker threads.                                            *)
(***************************************************************************)
EXTENDS Integers, Sequences, FiniteSets, TLC

VARIABLES
    \* ---- parse_group_data: arguments and the provider's wall
    group_numeric,      \* group_id.isdigit() or group_id.startswith('-')
    max_posts,
    include_comments,
    start_date,         \* None or Some(int(start_date.timestamp()))
    end_date,           \* None or Some(int(end_date.timestamp()))
    feed,               \* the provider's wall, in the order wall.get returns it
    \* ---- parse_group_data: locals
    pc,                 \* "start", "loop", "comments", "done", "raised"
    group_info,
    all_posts,
    posts_collected,
    offset,
    posts_in_period,
    all_comments,
    post_index,         \* the enumerate() position of the comment loop, 1-based
    result,             \* the returned dict, once pc = "done"
    \* ---- history of the run
    calls,              \* the API requests and the time.sleep of the latest step, in order
    lastCall,           \* the latest call of _make_request made on its own (ClientSpec)
    hist,               \* what the run has done so far (see NoHistory)
    \* ---- web_interface.py
    parsing_status,     \* the global status record
    handler,            \* per request: its JSON body and the position of its start_parsing handler
    worker,             \* per request: position of the run_parsing thread it started
    \* ---- data_analyzer.py
    data,               \* the collected data: what is saved, and what the analyzer loads
    report,             \* the latest call of the analyzer and what it returned
    extra_columns       \* the columns the analyzer's methods have added to self.posts_df

pvars == <<group_numeric, max_posts, include_comments, start_date, end_date, feed,
           pc, group_info, all_posts, posts_collected, offset, posts_in_period,
           all_comments, post_index, result, calls, lastCall, hist>>
wvars == <<parsing_status, handler, worker>>
avars == <<data, report, extra_columns>>
vars == <<pvars, wvars, avars>>

(***************************************************************************)
(* Bounds of the model.                                                    *)
(***************************************************************************)
MaxFeed == 3        \* posts on the provider's wall
MaxDate == 2        \* post dates and filter bounds are 0..MaxDate
MaxPosts == 3       \* max_posts is 0..MaxPosts
MaxRequests == 2    \* start requests sent to the dashboard
MaxRows == 2        \* posts, and comments, of a dataset given to the analyzer
MaxCount == 1       \* likes, reposts and comments of a post are 0..MaxCount
MaxTexts == 2       \* texts of a text series
MaxFragments == 2   \* fragments a text is made of
MaxMinLength == 3   \* min_length is 1..MaxMinLength
MaxTop == 2         \* top_n is 0..MaxTop
MaxTopicRows == 1   \* posts, and comments, of the data whose topics are analysed

\* The page size of wall.get and wall.getComments requests.
BatchLimit == 100
\* The defaults of extract_keywords, and the length its callers cut the lists to.
DefaultMinLength == 3
DefaultTopN == 50
TopicsLimit == 20

Min(a, b) == IF a < b THEN a ELSE b

(***************************************************************************)
(* Python values.                                                          *)
(***************************************************************************)
\* An optional datetime argument, already converted by int(d.timestamp()).
None == [some |-> FALSE, val |-> 0]
Some(x) == [some |-> TRUE, val |-> x]

\* "if start_timestamp": None and 0 are both falsy.
Configured(ts) == ts.some /\ ts.val # 0

\* JSON values: a dict (its keys, and its 'items' list when it has one) or a list.
EmptyDict == [kind |-> "dict", keys |-> {}, items |-> <<>>]
ItemsDict(s) == [kind |-> "dict", keys |-> {"items"}, items |-> s]
ListOf(s) == [kind |-> "list", keys |-> {}, items |-> s]
Truthy(v) == IF v.kind = "dict" THEN v.keys # {} ELSE Len(v.items) > 0

\* A group dict of groups.getById, and the {} get_group_info returns instead.
GroupDict(ks) == [keys |-> ks, id |-> 1]
EmptyGroup == GroupDict({})

\* What a function call gives its caller: a return value or an exception.
Returns(v) == [raised |-> FALSE, value |-> v]
Raises == [raised |-> TRUE, value |-> EmptyDict]

(***************************************************************************)
(* HTTP replies of the provider.                                           *)
(***************************************************************************)
Reply(t, ks, r) == [transport |-> t, keys |-> ks, response |-> r]

\* The failed calls: a connection error, a non-2xx status, a body that is no JSON,
\* and a JSON body with an 'error' field.
Failures ==
    { Reply(t, {}, EmptyDict) : t \in {"conn_error", "http_error", "bad_json"} }
    \cup { Reply("ok", {"error"}, EmptyDict) }

\* A successful call whose 'response' payload is empty.
EmptyPayload == Reply("ok", {"response"}, EmptyDict)

IsFailure(reply) == reply.transport # "ok" \/ "error" \in reply.keys

(***************************************************************************)
(* The API client and the three endpoint wrappers, as functions of the     *)
(* provider's reply.                                                       *)
(***************************************************************************)
\* _make_request raising on a failed call instead of returning {}.
MakeRequestRaising(reply) ==
    IF reply.transport # "ok" \/ "error" \in reply.keys THEN Raises
    ELSE IF "response" \in reply.keys THEN Returns(reply.response)
    ELSE Returns(EmptyDict)

\* _make_request: every failure is printed and {} returned.
MakeRequest(reply) ==
    IF reply.transport \in {"conn_error", "http_error"} THEN Returns(EmptyDict)
    ELSE IF reply.transport = "bad_json" THEN Returns(EmptyDict)
    ELSE IF "error" \in reply.keys THEN Returns(EmptyDict)
    ELSE IF "response" \in reply.keys THEN Returns(reply.response)
    ELSE Returns(EmptyDict)

\* Whether the value _make_request returned is of use to the wrapper calling it.
Usable(method, v) ==
    IF method = "groups.getById"
    THEN Truthy(v) /\ Len(v.items) > 0 /\ "id" \in v.items[1].keys
    ELSE Truthy(v) /\ "items" \in v.keys /\ Len(v.items) > 0

\* The history entry of one API request.
CallEntry(method, count, off, post, reply, ret) ==
    [method |-> method, count |-> count, offset |-> off, post |-> post,
     got |-> IF IsFailure(reply) THEN "failed"
             ELSE IF ~ret.raised /\ Usable(method, ret.value) THEN "data"
             ELSE IF ~ret.raised /\ "items" \in ret.value.keys THEN "empty"
             ELSE "nothing",
     n |-> IF ret.raised THEN 0 ELSE Len(ret.value.items)]

\* The history entry of one time.sleep.
SleepEntry ==
    [method |-> "sleep", count |-> 0, offset |-> 0, post |-> 0, got |-> "nothing", n |-> 0]

LastCall(method, reply, ret) == [method |-> method, reply |-> reply, ret |-> ret]
NoCall == LastCall("none", EmptyPayload, Returns(EmptyDict))

\* What a wrapper's call amounts to: its outcome and the requests it made.
Outcome(raised, value, log) == [raised |-> raised, value |-> value, log |-> log]

\* get_group_info, from the reply on, raising when the lookup gives no group.
GetGroupInfoRaising(reply) ==
    LET r == MakeRequest(reply)
    IN  Outcome(r.raised \/ ~(Truthy(r.value) /\ Len(r.value.items) > 0),
                IF ~r.raised /\ Truthy(r.value) /\ Len(r.value.items) > 0
                THEN r.value.items[1] ELSE EmptyGroup,
                <<CallEntry("groups.getById", 0, 0, 0, reply, r)>>)

\* get_group_info: the first group of the response, or {}.
GetGroupInfo(reply) ==
    LET r == MakeRequest(reply)
    IN  Outcome(r.raised,
                IF ~r.raised /\ Truthy(r.value) /\ Len(r.value.items) > 0
                THEN r.value.items[1] ELSE EmptyGroup,
                <<CallEntry("groups.getById", 0, 0, 0, reply, r)>>)

\* The numeric id lookup that opens get_wall_posts and get_post_comments: value is
\* TRUE when a numeric id is at hand.
ResolveGroup(numeric, lookup) ==
    IF numeric THEN Outcome(FALSE, TRUE, <<>>)
    ELSE LET g == GetGroupInfo(lookup)
         IN  Outcome(g.raised, ~g.raised /\ g.value.keys # {} /\ "id" \in g.value.keys, g.log)

\* The call of an items endpoint that follows the lookup g, and what it returns.
ItemsCall(g, entry, r) ==
    IF g.raised THEN Outcome(TRUE, <<>>, g.log)
    ELSE IF ~g.value THEN Outcome(FALSE, <<>>, g.log)
    ELSE IF r.raised THEN Outcome(TRUE, <<>>, g.log \o <<entry>>)
    ELSE IF Truthy(r.value) /\ "items" \in r.value.keys
    THEN Outcome(FALSE, r.value.items, g.log \o <<entry>>)
    ELSE Outcome(FALSE, <<>>, g.log \o <<entry>>)

\* get_wall_posts(group_id, count, offset).
GetWallPosts(numeric, lookup, reply, count, off) ==
    ItemsCall(ResolveGroup(numeric, lookup),
              CallEntry("wall.get", Min(count, BatchLimit), off, 0, reply, MakeRequest(reply)),
              MakeRequest(reply))

\* get_post_comments(group_id, post_id), with its default count and offset.
GetPostComments(numeric, lookup, reply, post) ==
    ItemsCall(ResolveGroup(numeric, lookup),
              CallEntry("wall.getComments", Min(BatchLimit, BatchLimit), 0, post, reply,
                        MakeRequest(reply)),
              MakeRequest(reply))

(***************************************************************************)
(* The date filter of one feed batch.                                      *)
(***************************************************************************)
RECURSIVE ScanBatch(_, _, _, _, _)
\* The "for post in posts" loop from position i on, acc being filtered_posts so far.
ScanBatch(posts, i, acc, st, et) ==
    IF i > Len(posts) THEN acc
    ELSE LET post_date == posts[i].date
         IN  IF Configured(st) /\ post_date < st.val THEN acc
             ELSE IF Configured(et) /\ post_date > et.val
             THEN ScanBatch(posts, i + 1, acc, st, et)
             ELSE IF Configured(st) /\ post_date >= st.val
             THEN ScanBatch(posts, i + 1, Append(acc, posts[i]), st, et)
             ELSE IF ~Configured(st)
             THEN ScanBatch(posts, i + 1, Append(acc, posts[i]), st, et)
             ELSE ScanBatch(posts, i + 1, acc, st, et)

RECURSIVE ScanBatchKeepOld(_, _, _, _, _)
\* The loop with the lower-bound test left out.
ScanBatchKeepOld(posts, i, acc, st, et) ==
    IF i > Len(posts) THEN acc
    ELSE IF Configured(et) /\ posts[i].date > et.val
    THEN ScanBatchKeepOld(posts, i + 1, acc, st, et)
    ELSE ScanBatchKeepOld(posts, i + 1, Append(acc, posts[i]), st, et)

FilterBatchKeepOld(posts, st, et) == ScanBatchKeepOld(posts, 1, <<>>, st, et)

\* The kept posts of a batch put last first.
FilterBatchReversed(posts, st, et) ==
    LET kept == ScanBatch(posts, 1, <<>>, st, et)
    IN  [i \in 1..Len(kept) |-> kept[Len(kept) + 1 - i]]

\* filtered_posts of one batch.
FilterBatch(posts, st, et) == ScanBatch(posts, 1, <<>>, st, et)

\* posts_collected counting batches instead of items.
CollectedAfterPerBatch(collected, posts) == collected + 1

\* posts_collected left as it was by a batch.
CollectedAfterUncounted(collected, posts) == collected

\* posts_collected += len(posts)
CollectedAfter(collected, posts) == collected + Len(posts)

\* The feed loop going on after an empty batch.
FeedEndedNever(posts) == FALSE

\* "if not posts: break"
FeedEnded(posts) == Len(posts) = 0

(***************************************************************************)
(* The provider.                                                           *)
(***************************************************************************)
\* Replies to groups.getById: a failure, no group, or the group.
LookupReplies ==
    Failures
    \cup { Reply("ok", {"response"}, ListOf(<<>>)),
           Reply("ok", {"response"}, ListOf(<<GroupDict({"id", "name"})>>)) }

\* Replies to wall.get(count, offset): a failure, or a page of the wall from the
\* offset on, of any length up to count (empty past the end).
WallReplies(count, off) ==
    LET rest == IF Len(feed) > off THEN Len(feed) - off ELSE 0
        sizes == IF rest = 0 \/ count <= 0 THEN {0} ELSE 1..Min(Min(count, BatchLimit), rest)
    IN  Failures
        \cup { Reply("ok", {"response"}, ItemsDict(SubSeq(feed, off + 1, off + k))) : k \in sizes }

\* The comments the provider holds for a post: as many as the post reports.
CommentsOf(post) == [j \in 1..post.comments |-> [id |-> 1000 * post.id + j, parent_post_id |-> 0]]

\* Replies to wall.getComments(post_id, count, offset 0): a failure, an empty page,
\* or the post's first count comments.
CommentReplies(post) ==
    Failures
    \cup { Reply("ok", {"response"}, ItemsDict(SubSeq(CommentsOf(post), 1, k))) :
               k \in {0, Min(post.comments, BatchLimit)} }

\* The replies one wrapper call consumes: <<lookup reply, endpoint reply>>. A numeric
\* group id needs no lookup, and a lookup that yields no id ends the call.
ReplyPairs(endpoint) ==
    IF group_numeric THEN { <<EmptyPayload, r>> : r \in endpoint }
    ELSE { <<l, r>> : l \in { x \in LookupReplies : ResolveGroup(FALSE, x).value },
                      r \in endpoint }
         \cup { <<l, EmptyPayload>> :
                    l \in { x \in LookupReplies : ~ResolveGroup(FALSE, x).value } }

(***************************************************************************)
(* parse_group_data                                                        *)
(***************************************************************************)
NoResult ==
    [group_info |-> EmptyGroup, posts |-> <<>>, comments |-> <<>>,
     total_posts |-> 0, total_comments |-> 0,
     filter_period |-> [start_date |-> None, end_date |-> None, posts_in_period |-> 0]]

\* The history of a run: the requests sent per endpoint; the items the feed requests
\* returned, and the batches they returned joined in fetch order; the items of the batches the feed loop went through to its end; whether a post older than the lower bound
\* was met, and how many posts were kept and feed requests sent when it was (the
\* batch it came in included); the endpoint of the latest feed or comment request that
\* no time.sleep has followed yet ("none" when there is none); whether a request of a batch fetch failed, and the posts kept and the
\* feed requests sent by then; and why the feed loop was left:
\*   "failed"  a request of the batch fetch failed (transport or 'error' field),
\*   "nothing" the fetch got an answer without a page in it,
\*   "end"     the provider returned an empty page,
\*   "window"  a lower bound is set and the batch had no post to keep,
\*   "budget"  posts_collected reached max_posts.
NoHistory ==
    [lookup_requests |-> 0, feed_requests |-> 0, comment_requests |-> 0,
     returned |-> 0, fetched |-> <<>>, consumed |-> 0,
     too_old_seen |-> FALSE, retained_at_old |-> 0, requests_at_old |-> 0,
     feed_failed |-> FALSE, posts_at_failure |-> <<>>, requests_at_failure |-> 0,
     pending |-> "none", feed_stop |-> "none"]

Count(log, method) == Cardinality({ j \in 1..Len(log) : log[j].method = method })

\* The scan of the batch meets a post older than a configured lower bound.
MeetsTooOld(posts, st) ==
    Configured(st) /\ \E j \in 1..Len(posts) : posts[j].date < st.val

\* Why a batch fetch that returned no post did so.
EmptyFetch(log) ==
    IF \E j \in 1..Len(log) : log[j].got = "failed" THEN "failed"
    ELSE IF \E j \in 1..Len(log) : log[j].method = "wall.get" /\ log[j].got = "empty" THEN "end"
    ELSE "nothing"

\* The requests of a step that no time.sleep follows: what is pending after them.
Pending(before, log) ==
    IF Len(log) > 0 /\ log[Len(log)].method = "sleep" THEN "none"
    ELSE IF \E j \in 1..Len(log) : log[j].method = "wall.get" THEN "wall.get"
    ELSE IF \E j \in 1..Len(log) : log[j].method = "wall.getComments" THEN "wall.getComments"
    ELSE before

Requested(h, log) ==
    [h EXCEPT !.lookup_requests = @ + Count(log, "groups.getById"),
              !.feed_requests = @ + Count(log, "wall.get"),
              !.comment_requests = @ + Count(log, "wall.getComments"),
              !.pending = Pending(@, log)]

\* The requests of a step with no pause after them.
Unpaced(log) == log

\* time.sleep after the requests of a fetch, before the loop goes round.
Paced(log) == log \o <<SleepEntry>>

\* group_info = self.get_group_info(group_id), and the locals of the feed loop.
FetchGroupInfo ==
    /\ pc = "start"
    /\ \E reply \in LookupReplies :
       \E g \in {GetGroupInfo(reply)} :
          /\ calls' = g.log
          /\ hist' = Requested(hist, g.log)
          /\ IF g.raised
             THEN pc' = "raised" /\ UNCHANGED group_info
             ELSE pc' = "loop" /\ group_info' = g.value
    /\ UNCHANGED <<group_numeric, max_posts, include_comments, start_date, end_date, feed,
                   all_posts, posts_collected, offset, posts_in_period, all_comments,
                   post_index, result>>
    /\ UNCHANGED <<lastCall, wvars, avars>>

\* A feed request asking for a full page whatever is left of the budget.
BatchSizeFull(budget, collected) == BatchLimit

\* batch_size = min(100, max_posts - posts_collected)
BatchSize(budget, collected) == Min(BatchLimit, budget - collected)

\* The history after a batch fetch that made the requests of log and returned posts,
\* kept being the posts kept once the batch is scanned.
BatchHistory(h, log, posts, before, kept, st) ==
    [h EXCEPT
        !.lookup_requests = @ + Count(log, "groups.getById"),
        !.feed_requests = @ + Count(log, "wall.get"),
        !.returned = @ + Len(posts),
        !.fetched = @ \o posts,
        !.too_old_seen = @ \/ MeetsTooOld(posts, st),
        !.retained_at_old = IF MeetsTooOld(posts, st) /\ ~h.too_old_seen THEN Len(kept) ELSE @,
        !.requests_at_old =
            IF MeetsTooOld(posts, st) /\ ~h.too_old_seen
            THEN h.feed_requests + Count(log, "wall.get") ELSE @,
        !.pending = Pending(@, log),
        !.feed_failed = @ \/ EmptyFetch(log) = "failed",
        !.posts_at_failure = IF EmptyFetch(log) = "failed" /\ ~h.feed_failed THEN before ELSE @,
        !.requests_at_failure =
            IF EmptyFetch(log) = "failed" /\ ~h.feed_failed
            THEN h.feed_requests + Count(log, "wall.get") ELSE @]

\* One pass of "while posts_collected < max_posts".
FetchBatch ==
    /\ pc = "loop"
    /\ posts_collected < max_posts
    /\ \E batch_size \in {BatchSize(max_posts, posts_collected)} :
       \E p \in ReplyPairs(WallReplies(batch_size, offset)) :
       \E w \in {GetWallPosts(group_numeric, p[1], p[2], batch_size, offset)} :
       \E posts \in {w.value} :
       \E filtered_posts \in {FilterBatch(posts, start_date, end_date)} :
       \E stops \in {Len(filtered_posts) = 0 /\ Configured(start_date)} :
       \E h \in {BatchHistory(hist, w.log, posts, all_posts,
                              IF stops THEN all_posts ELSE all_posts \o filtered_posts,
                              start_date)} :
          IF w.raised
          THEN /\ pc' = "raised"
               /\ calls' = w.log
               /\ hist' = h
               /\ UNCHANGED <<all_posts, posts_collected, offset, posts_in_period>>
          ELSE IF FeedEnded(posts)
          THEN /\ pc' = "comments"
               /\ calls' = w.log
               /\ hist' = [h EXCEPT !.feed_stop = EmptyFetch(w.log)]
               /\ UNCHANGED <<all_posts, posts_collected, offset, posts_in_period>>
          ELSE IF stops
          THEN /\ pc' = "comments"
               /\ calls' = w.log
               /\ hist' = [h EXCEPT !.feed_stop = "window"]
               /\ posts_in_period' = posts_in_period + Len(filtered_posts)
               /\ UNCHANGED <<all_posts, posts_collected, offset>>
          ELSE /\ pc' = "loop"
               /\ posts_in_period' = posts_in_period + Len(filtered_posts)
               /\ all_posts' = all_posts \o filtered_posts
               /\ posts_collected' = CollectedAfter(posts_collected, posts)
               /\ offset' = offset + Len(posts)
               /\ calls' = Paced(w.log)
               /\ hist' = [h EXCEPT !.consumed = @ + Len(posts),
                                    !.pending = Pending(@, Paced(w.log))]
    /\ UNCHANGED <<group_numeric, max_posts, include_comments, start_date, end_date, feed,
                   group_info, all_comments, post_index, result>>
    /\ UNCHANGED <<lastCall, wvars, avars>>

\* The while condition found false.
LeaveFeedLoop ==
    /\ pc = "loop"
    /\ ~(posts_collected < max_posts)
    /\ pc' = "comments"
    /\ calls' = <<>>
    /\ hist' = [hist EXCEPT !.feed_stop = "budget"]
    /\ UNCHANGED <<group_numeric, max_posts, include_comments, start_date, end_date, feed,
                   group_info, all_posts, posts_collected, offset, posts_in_period,
                   all_comments, post_index, result>>
    /\ UNCHANGED <<lastCall, wvars, avars>>

\* The comments left as the provider sent them.
Untagged(comments, post_id) == comments

\* comment['parent_post_id'] = post_id
Tagged(comments, post_id) ==
    [j \in 1..Len(comments) |-> [comments[j] EXCEPT !.parent_post_id = post_id]]

\* One pass of "for i, post in enumerate(all_posts)".
FetchComments ==
    /\ pc = "comments"
    /\ include_comments
    /\ post_index <= Len(all_posts)
    /\ \E post \in {all_posts[post_index]} :
          IF post.id # 0 /\ post.comments > 0
          THEN \E p \in ReplyPairs(CommentReplies(post)) :
               \E c \in {GetPostComments(group_numeric, p[1], p[2], post.id)} :
                  /\ IF c.raised
                     THEN /\ pc' = "raised"
                          /\ calls' = c.log
                          /\ hist' = Requested(hist, c.log)
                          /\ UNCHANGED <<all_comments, post_index>>
                     ELSE /\ pc' = "comments"
                          /\ all_comments' = all_comments \o Tagged(c.value, post.id)
                          /\ calls' = Paced(c.log)
                          /\ hist' = Requested(hist, Paced(c.log))
                          /\ post_index' = post_index + 1
          ELSE /\ post_index' = post_index + 1
               /\ calls' = <<>>
               /\ UNCHANGED <<pc, all_comments, hist>>
    /\ UNCHANGED <<group_numeric, max_posts, include_comments, start_date, end_date, feed,
                   group_info, all_posts, posts_collected, offset, posts_in_period, result>>
    /\ UNCHANGED <<lastCall, wvars, avars>>

\* The return statement.
ReturnResult ==
    /\ pc = "comments"
    /\ ~include_comments \/ post_index > Len(all_posts)
    /\ pc' = "done"
    /\ result' = [group_info |-> group_info, posts |-> all_posts, comments |-> all_comments,
                  total_posts |-> Len(all_posts), total_comments |-> Len(all_comments),
                  filter_period |-> [start_date |-> start_date, end_date |-> end_date,
                                     posts_in_period |-> posts_in_period]]
    /\ calls' = <<>>
    /\ UNCHANGED <<group_numeric, max_posts, include_comments, start_date, end_date, feed,
                   group_info, all_posts, posts_collected, offset, posts_in_period,
                   all_comments, post_index, hist>>
    /\ UNCHANGED <<lastCall, wvars, avars>>

(***************************************************************************)
(* The runs of parse_group_data.                                           *)
(***************************************************************************)
OptDates == {None} \cup { Some(d) : d \in 0..MaxDate }

\* The comments of the post with the given id: one more than a request can ask for
\* when the id is a multiple of 3, one when it is even, none otherwise.
CommentCount(id) ==
    IF id % 3 = 0 THEN BatchLimit + 1 ELSE IF id % 2 = 0 THEN 1 ELSE 0

\* A wall of n posts with the given dates; ids fall from n to 1 as on a real wall.
Wall(dates) ==
    [i \in 1..Len(dates) |->
        [id |-> Len(dates) - i + 1, date |-> dates[i],
         comments |-> CommentCount(Len(dates) - i + 1)]]

Walls == UNION { { Wall(d) : d \in [1..n -> 0..MaxDate] } : n \in 0..MaxFeed }

\* The web variables while nobody uses the dashboard.
WebIdle ==
    /\ parsing_status = [is_running |-> FALSE, progress |-> 0, message |-> "", last_update |-> 0]
    /\ handler = [r \in 1..MaxRequests |->
                     [at |-> "idle", token |-> FALSE, start_date |-> FALSE, end_date |-> FALSE]]
    /\ worker = [r \in 1..MaxRequests |-> "none"]

\* The analyzer's variables while no analysis is modelled.
NoData == [posts |-> <<>>, comments |-> <<>>]
NoReport == [fn |-> "none", raised |-> FALSE, value |-> <<>>]
AnalyzerIdle == data = NoData /\ report = NoReport /\ extra_columns = {}

\* The parser's variables while no parse_group_data call is modelled.
ParseIdle ==
    /\ group_numeric = FALSE
    /\ max_posts = 0
    /\ include_comments = TRUE
    /\ start_date = None
    /\ end_date = None
    /\ feed = <<>>
    /\ pc = "start"
    /\ group_info = EmptyGroup
    /\ all_posts = <<>>
    /\ posts_collected = 0
    /\ offset = 0
    /\ posts_in_period = 0
    /\ all_comments = <<>>
    /\ post_index = 1
    /\ result = NoResult
    /\ calls = <<>>
    /\ hist = NoHistory

ParseInit ==
    /\ group_numeric \in BOOLEAN
    /\ max_posts \in 0..MaxPosts
    /\ include_comments \in BOOLEAN
    /\ start_date \in OptDates
    /\ end_date \in OptDates
    /\ feed \in Walls
    /\ pc = "start"
    /\ group_info = EmptyGroup
    /\ all_posts = <<>>
    /\ posts_collected = 0
    /\ offset = 0
    /\ posts_in_period = 0
    /\ all_comments = <<>>
    /\ post_index = 1
    /\ result = NoResult
    /\ calls = <<>>
    /\ hist = NoHistory
    /\ lastCall = NoCall
    /\ WebIdle
    /\ AnalyzerIdle

ParseNext == FetchGroupInfo \/ FetchBatch \/ LeaveFeedLoop \/ FetchComments \/ ReturnResult

ParseSpec == ParseInit /\ [][ParseNext]_vars

(***************************************************************************)
(* The runs of parse_group_data on a wall that grows while it is read.     *)
(***************************************************************************)
\* The group publishes a post: it goes on top of the wall with the next id and the
\* newest date, and every older post moves one place down.
Publish ==
    /\ pc \in {"start", "loop"}
    /\ Len(feed) <= MaxFeed
    /\ feed' = <<[id |-> Len(feed) + 1, date |-> MaxDate,
                  comments |-> CommentCount(Len(feed) + 1)]>> \o feed
    /\ calls' = <<>>
    /\ UNCHANGED <<group_numeric, max_posts, include_comments, start_date, end_date,
                   pc, group_info, all_posts, posts_collected, offset, posts_in_period,
                   all_comments, post_index, result, hist>>
    /\ UNCHANGED <<lastCall, wvars, avars>>

\* Runs without date bounds.
LiveInit == ParseInit /\ start_date = None /\ end_date = None

LiveNext == ParseNext \/ Publish

LiveSpec == LiveInit /\ [][LiveNext]_vars

(***************************************************************************)
(* _make_request on its own, against every reply a server can give.        *)
(***************************************************************************)
Methods == {"groups.getById", "wall.get", "wall.getComments"}

Payloads ==
    { EmptyDict, ListOf(<<>>), ListOf(<<GroupDict({"name"})>>),
      ListOf(<<GroupDict({"id", "name"})>>) }
    \cup { ItemsDict(w) : w \in Walls }

\* A reply that did not arrive or is no JSON has no body to look at.
ClientReplies ==
    { Reply(t, {}, EmptyDict) : t \in {"conn_error", "http_error", "bad_json"} }
    \cup { Reply("ok", ks, EmptyDict) : ks \in {{}, {"error"}} }
    \cup { Reply("ok", ks, r) : ks \in {{"response"}, {"error", "response"}}, r \in Payloads }

ClientCall ==
    /\ \E m \in Methods, reply \in ClientReplies :
          lastCall' = LastCall(m, reply, MakeRequest(reply))
    /\ UNCHANGED <<group_numeric, max_posts, include_comments, start_date, end_date, feed,
                   pc, group_info, all_posts, posts_collected, offset, posts_in_period,
                   all_comments, post_index, result, calls, hist>>
    /\ UNCHANGED <<wvars, avars>>

ClientInit == ParseIdle /\ lastCall = NoCall /\ WebIdle /\ AnalyzerIdle

ClientNext == ClientCall

ClientSpec == ClientInit /\ [][ClientNext]_vars

(***************************************************************************)
(* The dashboard: /api/start_parsing and the run_parsing thread.           *)
(***************************************************************************)
Requests == 1..MaxRequests

\* last_update of request r's run: when it began (1), succeeded (2) or failed (3).
Stamp(r, what) == 10 * r + what

\* start_parsing up to the reading of the request body: the is_running test.
HandlerCheck(r) ==
    /\ handler[r].at = "idle"
    /\ IF parsing_status.is_running
       THEN handler' = [handler EXCEPT ![r].at = "rejected_running"]
       ELSE \E t \in BOOLEAN, sd \in BOOLEAN, ed \in BOOLEAN :
              handler' = [handler EXCEPT ![r] = [at |-> "checked", token |-> t,
                                                 start_date |-> sd, end_date |-> ed]]
    /\ UNCHANGED <<parsing_status, worker>>
    /\ UNCHANGED <<pvars, avars>>

\* start_parsing starting the thread before it looks at the token.
HandlerStartUnchecked(r) ==
    /\ handler[r].at = "checked"
    /\ handler' = [handler EXCEPT ![r].at = IF handler[r].token THEN "accepted"
                                                              ELSE "rejected_token"]
    /\ worker' = [worker EXCEPT ![r] = "spawned"]
    /\ UNCHANGED parsing_status
    /\ UNCHANGED <<pvars, avars>>

\* start_parsing from the token test on: the thread is started.
HandlerStart(r) ==
    /\ handler[r].at = "checked"
    /\ IF ~handler[r].token
       THEN /\ handler' = [handler EXCEPT ![r].at = "rejected_token"]
            /\ UNCHANGED worker
       ELSE /\ handler' = [handler EXCEPT ![r].at = "accepted"]
            /\ worker' = [worker EXCEPT ![r] = "spawned"]
    /\ UNCHANGED parsing_status
    /\ UNCHANGED <<pvars, avars>>

\* An except clause that leaves is_running set.
FailedStillRunning(r) ==
    [is_running |-> TRUE, progress |-> 0, message |-> "error", last_update |-> Stamp(r, 3)]

\* The except clause of run_parsing.
Failed(r) ==
    [is_running |-> FALSE, progress |-> 0, message |-> "error", last_update |-> Stamp(r, 3)]

\* run_parsing: the first status update.
WorkerBegin(r) ==
    /\ worker[r] = "spawned"
    /\ parsing_status' = [is_running |-> TRUE, progress |-> 0, message |-> "init",
                          last_update |-> Stamp(r, 1)]
    /\ worker' = [worker EXCEPT ![r] = "begun"]
    /\ UNCHANGED handler
    /\ UNCHANGED <<pvars, avars>>

\* run_parsing: the parser is built and the dates are parsed.
WorkerPrepare(r) ==
    /\ worker[r] = "begun"
    /\ parsing_status' =
          [parsing_status EXCEPT
              !.progress = 10,
              !.message = IF handler[r].end_date
                          THEN (IF handler[r].start_date THEN "filter_period" ELSE "filter_until")
                          ELSE (IF handler[r].start_date THEN "filter_from" ELSE "group_info")]
    /\ worker' = [worker EXCEPT ![r] = "prepared"]
    /\ UNCHANGED handler
    /\ UNCHANGED <<pvars, avars>>

\* run_parsing: parse_group_data has returned.
WorkerCollect(r) ==
    /\ worker[r] = "prepared"
    /\ parsing_status' = [parsing_status EXCEPT !.progress = 80, !.message = "saving"]
    /\ worker' = [worker EXCEPT ![r] = "collected"]
    /\ UNCHANGED handler
    /\ UNCHANGED <<pvars, avars>>

\* run_parsing: the files are written, or writing them raises.
WorkerSave(r) ==
    /\ worker[r] = "collected"
    /\ \E raised \in BOOLEAN :
          IF raised
          THEN /\ parsing_status' = Failed(r)
               /\ worker' = [worker EXCEPT ![r] = "finished"]
          ELSE /\ parsing_status' = [parsing_status EXCEPT !.progress = 90, !.message = "analysis"]
               /\ worker' = [worker EXCEPT ![r] = "saved"]
    /\ UNCHANGED handler
    /\ UNCHANGED <<pvars, avars>>

\* run_parsing: the analysis of the saved file, which returns or raises.
WorkerAnalyse(r) ==
    /\ worker[r] = "saved"
    /\ \E raised \in BOOLEAN :
          IF raised
          THEN /\ parsing_status' = Failed(r)
               /\ worker' = [worker EXCEPT ![r] = "finished"]
          ELSE /\ UNCHANGED parsing_status
               /\ worker' = [worker EXCEPT ![r] = "analysed"]
    /\ UNCHANGED handler
    /\ UNCHANGED <<pvars, avars>>

\* The result message: data['filter_period'] has an ISO string for a date that was
\* given and None for one that was not, and None[:10] raises.
ResultMessage(start_given, end_given) ==
    IF start_given /\ ~end_given THEN Raises ELSE Returns(EmptyDict)

\* The last update of a run that went through.
Succeeded(r) ==
    [is_running |-> FALSE, progress |-> 100, message |-> "done", last_update |-> Stamp(r, 2)]

\* run_parsing: the result message and the last status update.
WorkerFinish(r) ==
    /\ worker[r] = "analysed"
    /\ IF ResultMessage(handler[r].start_date, handler[r].end_date).raised
       THEN parsing_status' = Failed(r)
       ELSE parsing_status' = Succeeded(r)
    /\ worker' = [worker EXCEPT ![r] = "finished"]
    /\ UNCHANGED handler
    /\ UNCHANGED <<pvars, avars>>

WebInit == ParseIdle /\ lastCall = NoCall /\ WebIdle /\ AnalyzerIdle

WebNext ==
    \E r \in Requests :
        \/ HandlerCheck(r)
        \/ HandlerStart(r)
        \/ WorkerBegin(r)
        \/ WorkerPrepare(r)
        \/ WorkerCollect(r)
        \/ WorkerSave(r)
        \/ WorkerAnalyse(r)
        \/ WorkerFinish(r)

WebSpec == WebInit /\ [][WebNext]_vars

\* The steps of the run_parsing thread of request r.
WorkerStep(r) ==
    \/ WorkerBegin(r)
    \/ WorkerPrepare(r)
    \/ WorkerCollect(r)
    \/ WorkerSave(r)
    \/ WorkerAnalyse(r)
    \/ WorkerFinish(r)

\* The dashboard with every started thread scheduled fairly and every call it makes
\* returning.
WebFairSpec == WebSpec /\ \A r \in Requests : WF_vars(WorkerStep(r))

(***************************************************************************)
(* data_analyzer.py: the data frames and get_basic_statistics.             *)
(***************************************************************************)
\* A number: an int is Num(n, 1), the mean of n values is Num(sum, n), and the mean
\* of no value at all is NaN.
Num(n, d) == [kind |-> "number", num |-> n, den |-> d]
NaN == [kind |-> "nan", num |-> 0, den |-> 0]

\* Indexing a frame by a column it does not have.
KeyError == [raised |-> TRUE, value |-> NaN]

\* A post and a comment as the collected data holds them.
JsonPost(id, date, text, likes, reposts, comments) ==
    [id |-> id, date |-> date, text |-> text,
     likes |-> likes, reposts |-> reposts, comments |-> comments]
JsonComment(id, parent, text) == [id |-> id, parent_post_id |-> parent, text |-> text]

\* pd.DataFrame(rows): a frame made from no row has no column.
Frame(columns, rows) == [columns |-> IF Len(rows) = 0 THEN {} ELSE columns, rows |-> rows]

\* df.empty
IsEmpty(df) == Len(df.rows) = 0 \/ df.columns = {}

\* _prepare_posts_dataframe
PreparePostsDataframe(posts) ==
    Frame({"id", "date", "text", "likes_count", "reposts_count", "comments_count",
           "views_count", "from_id", "text_length", "engagement", "engagement_rate"},
          [i \in 1..Len(posts) |->
              [id |-> posts[i].id, date |-> posts[i].date, text |-> posts[i].text,
               likes_count |-> posts[i].likes, reposts_count |-> posts[i].reposts,
               comments_count |-> posts[i].comments,
               engagement |-> posts[i].likes + posts[i].reposts + posts[i].comments]])

\* _prepare_comments_dataframe
PrepareCommentsDataframe(comments) ==
    Frame({"id", "parent_post_id", "date", "text", "likes_count", "from_id", "text_length"},
          [i \in 1..Len(comments) |->
              [id |-> comments[i].id, parent_post_id |-> comments[i].parent_post_id,
               text |-> comments[i].text]])

RECURSIVE SumOf(_, _, _)
\* The sum of a column over the rows from i on.
SumOf(rows, column, i) ==
    IF i > Len(rows) THEN 0 ELSE rows[i][column] + SumOf(rows, column, i + 1)

\* df[column].mean(), df[column].sum(), df[column].min(), df[column].max()
ColumnMean(df, column) ==
    IF column \notin df.columns THEN KeyError
    ELSE IF Len(df.rows) = 0 THEN Returns(NaN)
    ELSE Returns(Num(SumOf(df.rows, column, 1), Len(df.rows)))
ColumnSum(df, column) ==
    IF column \notin df.columns THEN KeyError
    ELSE Returns(Num(SumOf(df.rows, column, 1), 1))
ColumnMin(df, column) ==
    IF column \notin df.columns THEN KeyError
    ELSE Returns(Some(CHOOSE v \in { df.rows[i][column] : i \in 1..Len(df.rows) } :
                         \A i \in 1..Len(df.rows) : v <= df.rows[i][column]))
ColumnMax(df, column) ==
    IF column \notin df.columns THEN KeyError
    ELSE Returns(Some(CHOOSE v \in { df.rows[i][column] : i \in 1..Len(df.rows) } :
                         \A i \in 1..Len(df.rows) : v >= df.rows[i][column]))

\* The stats dict, from the values of its entries: evaluating any of them may raise.
StatsDict(n_posts, n_comments, start, end, likes, comments, reposts, engagement) ==
    [raised |-> start.raised \/ end.raised \/ likes.raised \/ comments.raised
                    \/ reposts.raised \/ engagement.raised,
     value |-> [total_posts |-> n_posts, total_comments |-> n_comments,
                date_range |-> [start |-> start.value, end |-> end.value],
                engagement_stats |->
                    [avg_likes_per_post |-> likes.value,
                     avg_comments_per_post |-> comments.value,
                     avg_reposts_per_post |-> reposts.value,
                     total_engagement |-> engagement.value]]]

\* get_basic_statistics without its "if not self.posts_df.empty" tests.
GetBasicStatisticsUnguarded(posts_df, comments_df) ==
    StatsDict(Len(posts_df.rows), Len(comments_df.rows),
              ColumnMin(posts_df, "date"), ColumnMax(posts_df, "date"),
              ColumnMean(posts_df, "likes_count"), ColumnMean(posts_df, "comments_count"),
              ColumnMean(posts_df, "reposts_count"), ColumnSum(posts_df, "engagement"))

\* get_basic_statistics
GetBasicStatistics(posts_df, comments_df) ==
    StatsDict(Len(posts_df.rows), Len(comments_df.rows),
              IF ~IsEmpty(posts_df) THEN ColumnMin(posts_df, "date") ELSE Returns(None),
              IF ~IsEmpty(posts_df) THEN ColumnMax(posts_df, "date") ELSE Returns(None),
              IF ~IsEmpty(posts_df) THEN ColumnMean(posts_df, "likes_count")
                                    ELSE Returns(Num(0, 1)),
              IF ~IsEmpty(posts_df) THEN ColumnMean(posts_df, "comments_count")
                                    ELSE Returns(Num(0, 1)),
              IF ~IsEmpty(posts_df) THEN ColumnMean(posts_df, "reposts_count")
                                    ELSE Returns(Num(0, 1)),
              IF ~IsEmpty(posts_df) THEN ColumnSum(posts_df, "engagement")
                                    ELSE Returns(Num(0, 1)))

\* A call of an analyzer method, and what it returned.
Report(fn, outcome) == [fn |-> fn, raised |-> outcome.raised, value |-> outcome.value]

\* analyzer.get_basic_statistics() on the loaded data.
BasicStatistics ==
    /\ report.fn = "none"
    /\ report' = Report("get_basic_statistics",
                        GetBasicStatistics(PreparePostsDataframe(data.posts),
                                           PrepareCommentsDataframe(data.comments)))
    /\ UNCHANGED <<data, extra_columns, pvars, wvars>>

\* The datasets of the statistics: posts with their counters, comments by number.
StatsPosts ==
    UNION { [1..n -> { JsonPost(0, d, <<>>, l, r, c) :
                          d \in {0, MaxDate}, l \in 0..MaxCount,
                          r \in 0..MaxCount, c \in 0..MaxCount }] : n \in 0..MaxRows }
StatsComments == { [i \in 1..n |-> JsonComment(i, 0, <<>>)] : n \in 0..MaxRows }

StatsInit ==
    /\ ParseIdle /\ lastCall = NoCall /\ WebIdle
    /\ data \in [posts : StatsPosts, comments : StatsComments]
    /\ report = NoReport
    /\ extra_columns = {}

StatsNext == BasicStatistics

StatsSpec == StatsInit /\ [][StatsNext]_vars

(***************************************************************************)
(* data_analyzer.py: texts. A text is a sequence of characters; "ya" and   *)
(* "YA" name the Cyrillic letter ya in its two cases.                      *)
(***************************************************************************)
LatinLower == {"a", "b", "c", "h", "n", "p", "s", "t"}
LatinUpper == {"A", "B", "C", "N"}
Cyrillic == {"ya", "YA"}
Digits == {"1"}

\* str.lower() of one character.
Lower(c) ==
    CASE c = "A" -> "a" [] c = "B" -> "b" [] c = "C" -> "c" [] c = "N" -> "n"
      [] c = "YA" -> "ya" [] OTHER -> c

\* str.lower()
LowerText(t) == [i \in 1..Len(t) |-> Lower(t[i])]

\* \w; [а-яёА-ЯЁa-zA-Z]; and the characters a URL goes on with: letters, digits and
\* the classes [$-_@.&+] and [!*\(\),], which hold no space, no '#' and no Cyrillic.
WordChars == LatinLower \cup LatinUpper \cup Cyrillic \cup Digits \cup {"_"}
LetterChars == LatinLower \cup LatinUpper \cup Cyrillic
UrlChars == LatinLower \cup LatinUpper \cup Digits \cup {"_", "-", "@", ".", ":", "/"}

RECURSIVE Join(_, _)
\* ' '.join(texts), from the i-th text on.
Join(texts, i) ==
    IF i > Len(texts) THEN <<>>
    ELSE IF i = Len(texts) THEN texts[i]
    ELSE texts[i] \o <<" ">> \o Join(texts, i + 1)

RECURSIVE RunLen(_, _, _)
\* The number of characters of the class that follow one another from position i.
RunLen(t, i, class) ==
    IF i > Len(t) THEN 0
    ELSE IF t[i] \notin class THEN 0
    ELSE 1 + RunLen(t, i + 1, class)

StartsWith(t, i, literal) ==
    /\ i + Len(literal) - 1 <= Len(t)
    /\ SubSeq(t, i, i + Len(literal) - 1) = literal

\* The length of the match at position i of the URL pattern, of @\w+ and of #\w+
\* (0: no match).
MatchLen(pattern, t, i) ==
    IF pattern = "url"
    THEN IF StartsWith(t, i, <<"h", "t", "t", "p", "s", ":", "/", "/">>)
            /\ RunLen(t, i + 8, UrlChars) > 0
         THEN 8 + RunLen(t, i + 8, UrlChars)
         ELSE IF StartsWith(t, i, <<"h", "t", "t", "p", ":", "/", "/">>)
                 /\ RunLen(t, i + 7, UrlChars) > 0
         THEN 7 + RunLen(t, i + 7, UrlChars)
         ELSE 0
    ELSE IF t[i] = pattern /\ RunLen(t, i + 1, WordChars) > 0
    THEN 1 + RunLen(t, i + 1, WordChars)
    ELSE 0

RECURSIVE Sub(_, _, _)
\* re.sub(pattern, '', t), from position i on.
Sub(pattern, t, i) ==
    IF i > Len(t) THEN <<>>
    ELSE IF MatchLen(pattern, t, i) > 0 THEN Sub(pattern, t, i + MatchLen(pattern, t, i))
    ELSE <<t[i]>> \o Sub(pattern, t, i + 1)

RECURSIVE FindWords(_, _)
\* re.findall(r'[а-яёА-ЯЁa-zA-Z]+', t), from position i on.
FindWords(t, i) ==
    IF i > Len(t) THEN <<>>
    ELSE IF t[i] \notin LetterChars THEN FindWords(t, i + 1)
    ELSE <<SubSeq(t, i, i + RunLen(t, i, LetterChars) - 1)>>
             \o FindWords(t, i + RunLen(t, i, LetterChars))

\* The stop words that the letters above can spell.
StopWords == { <<"c", "a", "n">>, <<"h", "a", "s">> }

RECURSIVE Counter(_, _, _)
\* Counter(words): the words with their counts, in the order they were first met.
Counter(words, i, counts) ==
    IF i > Len(words) THEN counts
    ELSE IF \E k \in 1..Len(counts) : counts[k].word = words[i]
    THEN Counter(words, i + 1,
                 [k \in 1..Len(counts) |->
                     IF counts[k].word = words[i]
                     THEN [counts[k] EXCEPT !.count = @ + 1] ELSE counts[k]])
    ELSE Counter(words, i + 1, Append(counts, [word |-> words[i], count |-> 1]))

\* The place of the first entry with the greatest count.
FirstGreatest(counts) ==
    CHOOSE k \in 1..Len(counts) :
        /\ \A j \in 1..Len(counts) : counts[j].count <= counts[k].count
        /\ \A j \in 1..(k - 1) : counts[j].count < counts[k].count

\* The place of the last entry with the greatest count.
LastGreatest(counts) ==
    CHOOSE k \in 1..Len(counts) :
        /\ \A j \in 1..Len(counts) : counts[j].count <= counts[k].count
        /\ \A j \in (k + 1)..Len(counts) : counts[j].count < counts[k].count

Without(counts, k) == SubSeq(counts, 1, k - 1) \o SubSeq(counts, k + 1, Len(counts))

RECURSIVE MostCommonLastFirst(_, _)
\* most_common taking, among equal counts, the entry met last.
MostCommonLastFirst(counts, n) ==
    IF n <= 0 \/ Len(counts) = 0 THEN <<>>
    ELSE <<counts[LastGreatest(counts)]>>
             \o MostCommonLastFirst(Without(counts, LastGreatest(counts)), n - 1)

RECURSIVE MostCommon(_, _)
\* Counter.most_common(n): the n entries of greatest count, equal counts in the order
\* of the counter.
MostCommon(counts, n) ==
    IF n <= 0 \/ Len(counts) = 0 THEN <<>>
    ELSE <<counts[FirstGreatest(counts)]>>
             \o MostCommon(Without(counts, FirstGreatest(counts)), n - 1)

\* The words of the texts once URLs, mentions and hashtags are removed.
CleanWords(text_series) ==
    FindWords(LowerText(Sub("#", Sub("@", Sub("url", Join(text_series, 1), 1), 1), 1)), 1)

\* extract_keywords(text_series, min_length, top_n)
ExtractKeywords(text_series, min_length, top_n) ==
    MostCommon(
        Counter(SelectSeq(CleanWords(text_series),
                          LAMBDA word : Len(word) >= min_length /\ word \notin StopWords),
                1, <<>>),
        top_n)

\* The calls of extract_keywords on the texts of the posts: a first call, and the same
\* call made again.
KeywordsFirst ==
    /\ report.fn = "none"
    /\ \E min_length \in 1..MaxMinLength, top_n \in 0..MaxTop :
          report' = Report("extract_keywords",
                           Returns([min_length |-> min_length, top_n |-> top_n, runs |-> 1,
                                    first |-> ExtractKeywords(
                                                 [i \in 1..Len(data.posts) |-> data.posts[i].text],
                                                 min_length, top_n),
                                    second |-> <<>>]))
    /\ UNCHANGED <<data, extra_columns, pvars, wvars>>

KeywordsAgain ==
    /\ report.fn = "extract_keywords"
    /\ report.value.runs = 1
    /\ report' = [report EXCEPT
                     !.value.runs = 2,
                     !.value.second =
                         ExtractKeywords([i \in 1..Len(data.posts) |-> data.posts[i].text],
                                         report.value.min_length, report.value.top_n)]
    /\ UNCHANGED <<data, extra_columns, pvars, wvars>>

\* What the texts are made of: words in either case, a short word, a stop word, a
\* word with a digit in it, a mention, a hashtag, and a URL that a Cyrillic letter ends.
Fragments ==
    { <<"b", "a", "n">>, <<"B", "a", "n">>, <<"n", "a", "b">>, <<"a", "b">>,
      <<"c", "a", "n">>, <<"b", "a", "n", "1", "a", "b">>, <<"@", "n", "a", "b">>,
      <<"#", "b", "a", "n">>,
      <<"h", "t", "t", "p", ":", "/", "/", "a", "b", "ya", "n", "a", "b">> }

\* The texts: fragments with a space between them.
Texts == UNION { { Join(f, 1) : f \in [1..n -> Fragments] } : n \in 0..MaxFragments }

KeywordPosts ==
    UNION { { [i \in 1..n |-> JsonPost(i, 0, t[i], 0, 0, 0)] : t \in [1..n -> Texts] } :
              n \in 0..MaxTexts }

KeywordInit ==
    /\ ParseIdle /\ lastCall = NoCall /\ WebIdle
    /\ data \in [posts : KeywordPosts, comments : {<<>>}]
    /\ report = NoReport
    /\ extra_columns = {}

KeywordNext == KeywordsFirst \/ KeywordsAgain

KeywordSpec == KeywordInit /\ [][KeywordNext]_vars

(***************************************************************************)
(* data_analyzer.py: analyze_popular_topics.                               *)
(***************************************************************************)
\* The terms of tech_terms that the letters of the model can spell, in list order.
TechTerms == << <<"a", "b", "b">>, <<"c", "a", "n">> >>

\* \b at position i: of the characters before and at i, exactly one is a \w.
Boundary(t, i) ==
    (i > 1 /\ t[i - 1] \in WordChars) # (i <= Len(t) /\ t[i] \in WordChars)

\* The term matches at position i wherever it stands.
AnywhereAt(term, t, i) == StartsWith(t, i, term)

\* \bterm\b matches at position i.
WholeWordAt(term, t, i) ==
    StartsWith(t, i, term) /\ Boundary(t, i) /\ Boundary(t, i + Len(term))

RECURSIVE FindAll(_, _, _)
\* len(re.findall(r'\bterm\b', t)), from position i on.
FindAll(term, t, i) ==
    IF i > Len(t) THEN 0
    ELSE IF WholeWordAt(term, t, i) THEN 1 + FindAll(term, t, i + Len(term))
    ELSE FindAll(term, t, i + 1)

\* df['text']
TextColumn(df) ==
    IF "text" \notin df.columns THEN [raised |-> TRUE, value |-> <<>>]
    ELSE Returns([i \in 1..Len(df.rows) |-> df.rows[i].text])

\* tech_mentions: the terms found in the text, with their counts, in list order.
TechMentions(all_text) ==
    SelectSeq([k \in 1..Len(TechTerms) |->
                  [word |-> TechTerms[k], count |-> FindAll(TechTerms[k], all_text, 1)]],
              LAMBDA m : m.count > 0)

\* s[:n]
UpTo(s, n) == SubSeq(s, 1, Min(n, Len(s)))

\* analyze_popular_topics, from the two text columns on.
PopularTopics(posts_df, comments_df, post_texts, comment_texts) ==
    IF post_texts.raised \/ comment_texts.raised THEN [raised |-> TRUE, value |-> <<>>]
    ELSE Returns(
        [post_keywords |->
            IF ~IsEmpty(posts_df)
            THEN UpTo(ExtractKeywords(post_texts.value, DefaultMinLength, DefaultTopN),
                      TopicsLimit)
            ELSE <<>>,
         comment_keywords |->
            IF ~IsEmpty(comments_df)
            THEN UpTo(ExtractKeywords(comment_texts.value, DefaultMinLength, DefaultTopN),
                      TopicsLimit)
            ELSE <<>>,
         tech_terms_mentions |->
            MostCommon(TechMentions(LowerText(Join(post_texts.value, 1) \o <<" ">>
                                                  \o Join(comment_texts.value, 1))),
                       TopicsLimit)])

\* analyze_popular_topics
AnalyzePopularTopics(posts_df, comments_df) ==
    PopularTopics(posts_df, comments_df, TextColumn(posts_df), TextColumn(comments_df))

\* analyzer.analyze_popular_topics() on the loaded data.
PopularTopicsCall ==
    /\ report.fn = "none"
    /\ report' = Report("analyze_popular_topics",
                        AnalyzePopularTopics(PreparePostsDataframe(data.posts),
                                             PrepareCommentsDataframe(data.comments)))
    /\ UNCHANGED <<data, extra_columns, pvars, wvars>>

\* What the texts with terms are made of: a term in three cases, with a digit, an
\* underscore or a Cyrillic letter at its side, with a '-' behind it, and another term.
TopicFragments ==
    { <<"c", "a", "n">>, <<"C", "A", "N">>, <<"C", "a", "n">>, <<"c", "a", "n", "1">>,
      <<"_", "c", "a", "n">>, <<"ya", "c", "a", "n">>, <<"c", "a", "n", "-">>,
      <<"a", "b", "b">> }

TopicTexts ==
    UNION { { Join(f, 1) : f \in [1..n -> TopicFragments] } : n \in 0..MaxFragments }

TopicsInit ==
    /\ ParseIdle /\ lastCall = NoCall /\ WebIdle
    /\ data \in [posts : UNION { [1..n -> { JsonPost(1, 0, t, 0, 0, 0) : t \in TopicTexts }] :
                                   n \in 0..MaxTopicRows },
                 comments : UNION { [1..n -> { JsonComment(1, 1, t) : t \in TopicTexts }] :
                                      n \in 0..MaxTopicRows }]
    /\ report = NoReport
    /\ extra_columns = {}

TopicsNext == PopularTopicsCall

TopicsSpec == TopicsInit /\ [][TopicsNext]_vars

(***************************************************************************)
(* save_to_json, and the analyzer loading the file it wrote.               *)
(***************************************************************************)
\* What json.dump writes, piece by piece: brackets, keys, numbers and strings.
Piece(json, text) == [json |-> json, text |-> text]

\* A str that the utf-8 codec of the file encodes: one without a lone surrogate
\* (such as json.loads('"\ud83d"') yields).
Encodable(text) == \A i \in 1..Len(text) : text[i] # "lone_surrogate"

RECURSIVE DumpPosts(_, _)
DumpPosts(posts, i) ==
    IF i > Len(posts) THEN <<>>
    ELSE << Piece("{", <<>>), Piece("key", "id"), Piece("number", posts[i].id),
            Piece("key", "text"), Piece("string", posts[i].text), Piece("}", <<>>) >>
         \o DumpPosts(posts, i + 1)

RECURSIVE DumpComments(_, _)
DumpComments(comments, i) ==
    IF i > Len(comments) THEN <<>>
    ELSE << Piece("{", <<>>), Piece("key", "id"), Piece("number", comments[i].id),
            Piece("key", "text"), Piece("string", comments[i].text),
            Piece("key", "parent_post_id"), Piece("number", comments[i].parent_post_id),
            Piece("}", <<>>) >>
         \o DumpComments(comments, i + 1)

\* The pieces of the document, in the order of the keys of the result.
Pieces(d) ==
    << Piece("{", <<>>), Piece("key", "posts"), Piece("[", <<>>) >>
    \o DumpPosts(d.posts, 1)
    \o << Piece("]", <<>>), Piece("key", "comments"), Piece("[", <<>>) >>
    \o DumpComments(d.comments, 1)
    \o << Piece("]", <<>>), Piece("}", <<>>) >>

\* The pieces that reach the file: writing a string that cannot be encoded raises.
Writable(piece) == piece.json = "string" => Encodable(piece.text)

\* The pieces written before the first one that cannot be.
Written(pieces) ==
    IF \A k \in 1..Len(pieces) : Writable(pieces[k]) THEN pieces
    ELSE SubSeq(pieces, 1,
                (CHOOSE k \in 1..Len(pieces) :
                     ~Writable(pieces[k]) /\ \A j \in 1..(k - 1) : Writable(pieces[j])) - 1)

\* save_to_json(data, filename): the file it leaves, and whether it raised.
SaveToJson(d) ==
    [raised |-> Written(Pieces(d)) # Pieces(d), value |-> Written(Pieces(d))]

\* json.load accepts the file: the document is closed.
WellFormed(file) ==
    /\ Len(file) > 0
    /\ file[Len(file)].json = "}"
    /\ Cardinality({ k \in 1..Len(file) : file[k].json \in {"{", "["} })
           = Cardinality({ k \in 1..Len(file) : file[k].json \in {"}", "]"} })

RECURSIVE ReadPosts(_, _)
\* The posts of the array that starts at piece i; keys the file does not have read
\* as their defaults.
ReadPosts(file, i) ==
    IF file[i].json # "{" THEN <<>>
    ELSE <<JsonPost(file[i + 2].text, 0, file[i + 4].text, 0, 0, 0)>> \o ReadPosts(file, i + 6)

RECURSIVE ReadComments(_, _)
ReadComments(file, i) ==
    IF file[i].json # "{" THEN <<>>
    ELSE <<JsonComment(file[i + 2].text, file[i + 6].text, file[i + 4].text)>>
             \o ReadComments(file, i + 8)

\* _load_data: the data of the file, or {} when reading it fails.
LoadData(file) ==
    IF ~WellFormed(file) THEN NoData
    ELSE [posts |-> ReadPosts(file, 4),
          comments |-> ReadComments(file, 4 + 6 * Len(ReadPosts(file, 4)) + 3)]

\* parser.save_to_json(data, data_file)
Save ==
    /\ report.fn = "none"
    /\ report' = Report("save_to_json", SaveToJson(data))
    /\ UNCHANGED <<data, extra_columns, pvars, wvars>>

\* VKDataAnalyzer(data_file) on the file the save left.
Load ==
    /\ report.fn = "save_to_json"
    /\ \E loaded \in {LoadData(report.value)} :
          report' = Report("VKDataAnalyzer",
                           Returns([saved |-> ~report.raised,
                                    posts_df |-> PreparePostsDataframe(loaded.posts),
                                    comments_df |-> PrepareCommentsDataframe(loaded.comments)]))
    /\ UNCHANGED <<data, extra_columns, pvars, wvars>>

\* The results that are saved: posts and comments with an id and a text.
SavedTexts == { <<>>, <<"a", "b">>, <<"a", "lone_surrogate">> }
SavedPosts ==
    UNION { [1..n -> { JsonPost(id, 0, t, 0, 0, 0) : id \in 1..MaxRows, t \in SavedTexts }] :
              n \in 0..MaxRows }
SavedComments ==
    UNION { [1..n -> { JsonComment(id, parent, t) :
                          id \in 1..MaxRows, parent \in 1..MaxRows, t \in SavedTexts }] :
              n \in 0..MaxRows }

RoundTripInit ==
    /\ ParseIdle /\ lastCall = NoCall /\ WebIdle
    /\ data \in [posts : SavedPosts, comments : SavedComments]
    /\ report = NoReport
    /\ extra_columns = {}

RoundTripNext == Save \/ Load

RoundTripSpec == RoundTripInit /\ [][RoundTripNext]_vars

(***************************************************************************)
(* The analyzer object: its report and its charts.                         *)
(***************************************************************************)
\* self.posts_df as it is now: the frame of the constructor with the added columns.
PostsDf == [columns |-> PreparePostsDataframe(data.posts).columns \cup extra_columns,
            rows |-> PreparePostsDataframe(data.posts).rows]

\* self.comments_df
CommentsDf == PrepareCommentsDataframe(data.comments)

\* df[name]: the column, or KeyError.
Column(df, name) ==
    IF name \notin df.columns THEN [raised |-> TRUE, value |-> <<>>]
    ELSE Returns(df.rows)

Weekdays == <<"Monday", "Tuesday", "Wednesday", "Thursday", "Friday", "Saturday", "Sunday">>

\* datetime.fromtimestamp(ts) seen through .dt.day_name(), .dt.hour and
\* .dt.to_period('M'), for a clock on UTC and the timestamps of the first weeks of
\* 1970 (1 January 1970 was a Thursday).
DayName(ts) == Weekdays[(((ts \div 86400) + 3) % 7) + 1]
Hour(ts) == (ts \div 3600) % 24
Month(ts) == IF ts \div 86400 < 31 THEN "1970-01" ELSE "1970-02"

\* series.value_counts().to_dict()
ValueCounts(values) ==
    [v \in { values[i] : i \in 1..Len(values) } |->
        Cardinality({ i \in 1..Len(values) : values[i] = v })]

\* The columns analyze_posting_patterns adds to a frame that is not empty.
PatternColumns(df) == IF IsEmpty(df) THEN {} ELSE {"weekday", "hour", "month"}

\* analyze_posting_patterns: {} on an empty frame.
AnalyzePostingPatterns(df) ==
    IF IsEmpty(df) THEN Returns([posts_by_weekday |-> <<>>, posts_by_hour |-> <<>>,
                                 posts_by_month |-> <<>>])
    ELSE Returns(
        [posts_by_weekday |-> ValueCounts([i \in 1..Len(df.rows) |-> DayName(df.rows[i].date)]),
         posts_by_hour |-> ValueCounts([i \in 1..Len(df.rows) |-> Hour(df.rows[i].date)]),
         posts_by_month |-> ValueCounts([i \in 1..Len(df.rows) |-> Month(df.rows[i].date)])])

\* analyze_engagement_patterns: {} on an empty frame, else the ids of the posts of
\* greatest engagement (nlargest(10, 'engagement')); the correlations and the means
\* per text length, which are computed from the same columns, are left out.
AnalyzeEngagementPatterns(df) ==
    IF IsEmpty(df) THEN Returns(<<>>)
    ELSE Returns(MostCommon([i \in 1..Len(df.rows) |->
                                [word |-> df.rows[i].id, count |-> df.rows[i].engagement]],
                            10))

\* The report dict, from the values of its entries: evaluating any of them may raise.
ReportDict(stats, patterns, topics, engagement) ==
    [raised |-> stats.raised \/ patterns.raised \/ topics.raised \/ engagement.raised,
     value |-> [basic_statistics |-> stats.value, posting_patterns |-> patterns.value,
                popular_topics |-> topics.value, engagement_patterns |-> engagement.value]]

\* generate_report
GenerateReport(posts_df, comments_df) ==
    ReportDict(GetBasicStatistics(posts_df, comments_df),
               AnalyzePostingPatterns(posts_df),
               AnalyzePopularTopics(posts_df, comments_df),
               AnalyzeEngagementPatterns(posts_df))

\* The charts create_visualizations draws, from the columns and the topics it reads.
Charts(posts_df, weekday, hour, topics) ==
    IF ~IsEmpty(posts_df) /\ (weekday.raised \/ hour.raised)
    THEN [raised |-> TRUE, value |-> {}]
    ELSE IF topics.raised
    THEN [raised |-> TRUE,
          value |-> IF IsEmpty(posts_df) THEN {}
                    ELSE {"posting_patterns.png", "engagement_analysis.png"}]
    ELSE Returns(
        (IF IsEmpty(posts_df) THEN {} ELSE {"posting_patterns.png", "engagement_analysis.png"})
        \cup (IF Len(topics.value.post_keywords) > 0 THEN {"top_keywords.png"} ELSE {})
        \cup (IF Len(topics.value.tech_terms_mentions) > 0 THEN {"tech_terms.png"} ELSE {}))

\* create_visualizations
CreateVisualizations(posts_df, comments_df) ==
    Charts(posts_df, Column(posts_df, "weekday"), Column(posts_df, "hour"),
           AnalyzePopularTopics(posts_df, comments_df))

\* analyzer.analyze_posting_patterns()
PostingPatternsCall ==
    /\ report' = Report("analyze_posting_patterns", AnalyzePostingPatterns(PostsDf))
    /\ extra_columns' = extra_columns \cup PatternColumns(PostsDf)
    /\ UNCHANGED <<data, pvars, wvars>>

\* analyzer.generate_report(): the posting patterns are analysed before the topics.
GenerateReportCall ==
    /\ report' = Report("generate_report", GenerateReport(PostsDf, CommentsDf))
    /\ extra_columns' = extra_columns \cup PatternColumns(PostsDf)
    /\ UNCHANGED <<data, pvars, wvars>>

\* analyzer.create_visualizations()
CreateVisualizationsCall ==
    /\ report' = Report("create_visualizations", CreateVisualizations(PostsDf, CommentsDf))
    /\ UNCHANGED <<data, extra_columns, pvars, wvars>>

\* The texts of the analysed data: a few words, two of them technical terms.
ReportTexts ==
    UNION { { Join(f, 1) : f \in [1..n -> { <<"a", "b", "b">>, <<"b", "a", "n">> }] } :
              n \in 0..MaxFragments }

\* An analyzer just constructed, on data with posts or none and comments or none.
ReportInit ==
    /\ ParseIdle /\ lastCall = NoCall /\ WebIdle
    /\ data \in [posts : UNION { [1..n -> { JsonPost(1, d, t, 0, 0, c) :
                                             d \in {0, MaxDate}, t \in ReportTexts,
                                             c \in 0..MaxCount }] :
                                   n \in 0..MaxTopicRows },
                 comments : UNION { [1..n -> { JsonComment(1, 1, t) : t \in ReportTexts }] :
                                      n \in 0..MaxTopicRows }]
    /\ report = NoReport
    /\ extra_columns = {}

ReportNext ==
    PopularTopicsCall \/ PostingPatternsCall \/ GenerateReportCall \/ CreateVisualizationsCall

ReportSpec == ReportInit /\ [][ReportNext]_vars

(***************************************************************************)
(* Properties.                                                             *)
(***************************************************************************)
Done == pc = "done"

\* The runs whose worker thread has been started and has not finished.
ActiveRuns == { r \in Requests : worker[r] \notin {"none", "finished"} }

\* C1: at most one collection run is active at a time; a start request made while
\* an accepted run is unfinished starts no second worker thread.
C1_AtMostOneActiveRun == Cardinality(ActiveRuns) <= 1

\* C2: with a lower bound L given, every post kept by the feed loop, and every post
\* of the returned 'posts', has date >= L.
C2_RetainedNotOlderThanLowerBound ==
    start_date.some =>
        /\ \A i \in 1..Len(all_posts) : all_posts[i].date >= start_date.val
        /\ \A i \in 1..Len(result.posts) : result.posts[i].date >= start_date.val

\* C2 happens: a run with a lower bound met a post older than it and returned posts.
C2_Witness == Done /\ start_date.some /\ hist.too_old_seen /\ Len(result.posts) > 0

\* C3: once the first feed post older than the lower bound has been met, no post
\* met after it is kept: the kept posts stay those kept when it was met.
C3_NothingKeptAfterTooOld ==
    (start_date.some /\ hist.too_old_seen) => Len(all_posts) = hist.retained_at_old

\* C4: with an upper bound U given, whatever its timestamp, no kept or returned
\* post has date > U.
C4_RetainedNotNewerThanUpperBound ==
    end_date.some =>
        /\ \A i \in 1..Len(all_posts) : all_posts[i].date <= end_date.val
        /\ \A i \in 1..Len(result.posts) : result.posts[i].date <= end_date.val

\* The page the latest step got from wall.get, if it got one.
LastBatch ==
    IF \E j \in 1..Len(calls) : calls[j].method = "wall.get" /\ calls[j].got = "data"
    THEN LET e == calls[CHOOSE j \in 1..Len(calls) : calls[j].method = "wall.get"]
         IN  SubSeq(feed, e.offset + 1, e.offset + e.n)
    ELSE <<>>

Kept(post) == \E i \in 1..Len(all_posts) : all_posts[i] = post

InWindow(post) ==
    /\ start_date.some => post.date >= start_date.val
    /\ end_date.some => post.date <= end_date.val

\* C5: a post of a batch that is newer than the upper bound is not kept and not
\* counted in posts_in_period, and every post after it in the batch that lies in
\* the window and comes before any post older than the lower bound is kept.
C5_TooNewIsSkippedNotStop ==
    \A i \in 1..Len(LastBatch) :
        (end_date.some /\ LastBatch[i].date > end_date.val) =>
            /\ ~Kept(LastBatch[i])
            /\ posts_in_period = Len(all_posts)
            /\ \A j \in (i + 1)..Len(LastBatch) :
                  ( /\ InWindow(LastBatch[j])
                    /\ ~(start_date.some /\ \E k \in 1..j : LastBatch[k].date < start_date.val) )
                  => Kept(LastBatch[j])

Descending(posts) == \A i \in 1..(Len(posts) - 1) : posts[i].date >= posts[i + 1].date

RECURSIVE Select(_, _)
\* The posts of a sequence that lie in the window, in order.
Select(posts, i) ==
    IF i > Len(posts) THEN <<>>
    ELSE (IF InWindow(posts[i]) THEN <<posts[i]>> ELSE <<>>) \o Select(posts, i + 1)

\* C6: on a reverse-chronological wall, with both bounds given and the provider
\* answering every request with a page, the returned 'posts' are exactly the posts
\* among the first max_posts of the wall that lie in [L, U], however the wall is
\* split into batches.
C6_ExactlyTheWindow ==
    ( /\ Done
      /\ start_date.some /\ end_date.some
      /\ Descending(feed)
      /\ "id" \in group_info.keys
      /\ hist.feed_stop \in {"end", "window", "budget"} )
    => result.posts = Select(SubSeq(feed, 1, Min(max_posts, Len(feed))), 1)

\* C7: the returned posts_in_period and total_posts equal the number of returned
\* posts, while posts_collected, the counter of the max_posts budget, is the number
\* of items of all batches the loop went through, kept or not (and equals offset).
C7_CountersAgree ==
    /\ posts_in_period = Len(all_posts)
    /\ posts_collected = hist.consumed
    /\ posts_collected = offset
    /\ Done => /\ result.filter_period.posts_in_period = Len(result.posts)
               /\ result.total_posts = Len(result.posts)

\* C7 happens: a returned run that fetched more items than it kept, and kept some.
C7_Witness == Done /\ posts_collected > Len(result.posts) /\ Len(result.posts) > 0

\* C8: once a request of a batch fetch has failed, the feed loop is left without an
\* exception, no further feed request is sent, and the kept posts, which are the
\* returned 'posts', are those kept from the batches fetched before.
C8_PartialResultOnFailure ==
    hist.feed_failed =>
        /\ pc \in {"comments", "done"}
        /\ hist.feed_requests = hist.requests_at_failure
        /\ all_posts = hist.posts_at_failure
        /\ Done => result.posts = hist.posts_at_failure

\* C8 happens: a fetch failed after an earlier batch was kept, and the run returned.
C8_Witness == Done /\ hist.feed_failed /\ hist.consumed > 0 /\ Len(result.posts) > 0

\* The first get_wall_posts of the run returned no batch: its lookup or its wall.get
\* failed, or the lookup found no group.
FirstFetchFailed == hist.consumed = 0 /\ hist.feed_stop \in {"failed", "nothing"}

\* The lookup that opens parse_group_data gave no group.
LookupFailed == pc # "start" /\ "id" \notin group_info.keys

C11_GroupResolvedOnce ==
    (~group_numeric /\ pc # "start") => hist.lookup_requests = 1

\* The comments of a sequence that carry the given parent, in order.
CommentsUnder(comments, post_id) ==
    SelectSeq(comments, LAMBDA c : c.parent_post_id = post_id)

\* C12: with include_comments set, for every returned post that reports comments and
\* whose comment request was answered with a page as full as one request allows,
\* every comment the provider holds for the post is among the returned 'comments'.
C12_AllCommentsCollected ==
    (Done /\ include_comments) =>
        \A i \in 1..Len(result.posts) :
            ( /\ result.posts[i].comments > 0
              /\ Len(CommentsUnder(result.comments, result.posts[i].id))
                    >= Min(result.posts[i].comments, BatchLimit) )
            => CommentsUnder(result.comments, result.posts[i].id)
                   = Tagged(CommentsOf(result.posts[i]), result.posts[i].id)

\* The post the provider holds a comment for.
OwnerOf(comment) == comment.id \div 1000

\* C13: every collected comment, and every comment of a returned result, carries
\* as parent_post_id the id of a kept (returned) post, and that post is the one
\* whose comment request brought it.
C13_CommentsPointToReturnedPosts ==
    /\ \A j \in 1..Len(all_comments) :
          /\ \E i \in 1..Len(all_posts) : all_posts[i].id = all_comments[j].parent_post_id
          /\ all_comments[j].parent_post_id = OwnerOf(all_comments[j])
    /\ Done =>
          \A j \in 1..Len(result.comments) :
              /\ \E i \in 1..Len(result.posts) :
                    result.posts[i].id = result.comments[j].parent_post_id
              /\ result.comments[j].parent_post_id = OwnerOf(result.comments[j])

\* C13 happens: a returned result with the comments of two different posts.
C13_Witness ==
    /\ Done
    /\ \E j, k \in 1..Len(result.comments) :
          result.comments[j].parent_post_id # result.comments[k].parent_post_id

\* C14: no two kept posts, and no two posts of a returned result, have the same id,
\* whatever batches the provider returns and whatever is published meanwhile.
C14_NoDuplicatePosts ==
    /\ \A i, j \in 1..Len(all_posts) : all_posts[i].id = all_posts[j].id => i = j
    /\ \A i, j \in 1..Len(result.posts) : result.posts[i].id = result.posts[j].id => i = j

C16_EmptyStatisticsAreZero ==
    (report.fn = "get_basic_statistics" /\ Len(data.posts) = 0) =>
        /\ ~report.raised
        /\ report.value.total_posts = 0
        /\ report.value.engagement_stats.avg_likes_per_post = Num(0, 1)
        /\ report.value.engagement_stats.avg_comments_per_post = Num(0, 1)
        /\ report.value.engagement_stats.avg_reposts_per_post = Num(0, 1)
        /\ report.value.engagement_stats.total_engagement = Num(0, 1)
        /\ report.value.date_range = [start |-> None, end |-> None]

\* C16 happens: the statistics of data with comments and no post.
C16_Witness ==
    /\ report.fn = "get_basic_statistics"
    /\ Len(data.posts) = 0 /\ Len(data.comments) > 0
    /\ report.value.total_comments = Len(data.comments)

\* The words of the loaded posts' texts, as extract_keywords meets them.
WordsMet == CleanWords([i \in 1..Len(data.posts) |-> data.posts[i].text])

\* The place where a word is met first.
FirstMet(word) ==
    CHOOSE k \in 1..Len(WordsMet) :
        WordsMet[k] = word /\ \A j \in 1..(k - 1) : WordsMet[j] # word

AllText ==
    Join([i \in 1..Len(data.posts) |-> data.posts[i].text], 1) \o <<" ">>
        \o Join([i \in 1..Len(data.comments) |-> data.comments[i].text], 1)

\* The places of the text where the term stands in any letter case with no letter,
\* digit or underscore directly before or behind it.
Occurrences(term) ==
    { i \in 1..(Len(AllText) - Len(term) + 1) :
          /\ \A k \in 1..Len(term) : Lower(AllText[i + k - 1]) = term[k]
          /\ i > 1 => AllText[i - 1] \notin WordChars
          /\ i + Len(term) <= Len(AllText) => AllText[i + Len(term)] \notin WordChars }

\* The count reported for a term: 0 when the term is not reported.
Reported(term) ==
    IF \E k \in 1..Len(report.value.tech_terms_mentions) :
           report.value.tech_terms_mentions[k].word = term
    THEN (CHOOSE m \in { report.value.tech_terms_mentions[k] :
                             k \in 1..Len(report.value.tech_terms_mentions) } :
              m.word = term).count
    ELSE 0

IdsOf(rows) == [i \in 1..Len(rows) |-> rows[i].id]
ParentsOf(rows) == [i \in 1..Len(rows) |-> rows[i].parent_post_id]

\* C19: the analyzer that loads the file save_to_json wrote for a result has as many
\* posts and comments as the result, with the same ids and parent_post_ids in the
\* same order.
C19_RoundTrip ==
    report.fn = "VKDataAnalyzer" =>
        /\ Len(report.value.posts_df.rows) = Len(data.posts)
        /\ Len(report.value.comments_df.rows) = Len(data.comments)
        /\ IdsOf(report.value.posts_df.rows) = IdsOf(data.posts)
        /\ IdsOf(report.value.comments_df.rows) = IdsOf(data.comments)
        /\ ParentsOf(report.value.comments_df.rows) = ParentsOf(data.comments)

\* C20: with a lower bound given, once the first feed post older than it has been
\* met no further feed request is sent, whether or not its batch kept posts.
C20_NoRequestAfterTooOld ==
    (start_date.some /\ hist.too_old_seen) => hist.feed_requests = hist.requests_at_old

\* C21: with a lower bound given, a feed batch that has items and from which no post
\* is kept ends the feed loop: its items are not added to posts_collected or offset
\* and no feed request follows it; without a lower bound such a batch is counted
\* and the loop goes on.
C21_EmptyBatchEndsFeedLoop ==
    /\ [][( /\ \E j \in 1..Len(calls') :
                  calls'[j].method = "wall.get" /\ calls'[j].got = "data"
            /\ all_posts' = all_posts )
          => IF start_date.some
             THEN /\ pc' = "comments"
                  /\ posts_collected' = posts_collected
                  /\ offset' = offset
             ELSE /\ pc' = "loop"
                  /\ posts_collected' > posts_collected]_vars
    /\ [][hist.feed_stop = "window" => hist'.feed_requests = hist.feed_requests]_vars

RECURSIVE IsSubsequence(_, _, _, _)
\* Whether s from position i on can be found, in order, in t from position j on.
IsSubsequence(s, i, t, j) ==
    IF i > Len(s) THEN TRUE
    ELSE IF j > Len(t) THEN FALSE
    ELSE IF s[i] = t[j] THEN IsSubsequence(s, i + 1, t, j + 1)
    ELSE IsSubsequence(s, i, t, j + 1)

\* The first place of the post with the given id in a sequence of posts, 0 if none.
PlaceOf(posts, post_id) ==
    IF \E i \in 1..Len(posts) : posts[i].id = post_id
    THEN CHOOSE i \in 1..Len(posts) :
             posts[i].id = post_id /\ \A k \in 1..(i - 1) : posts[k].id # post_id
    ELSE 0

\* The comments come post after post, in the order of the posts.
GroupedBy(comments, posts) ==
    \A j \in 1..(Len(comments) - 1) :
        PlaceOf(posts, comments[j].parent_post_id)
            <= PlaceOf(posts, comments[j + 1].parent_post_id)

\* C22: the kept posts, and the returned 'posts', are a subsequence of the fetched
\* feed batches joined in fetch order, and the collected and returned comments are
\* grouped by parent post in the order of the posts.
C22_PaginationOrderKept ==
    /\ IsSubsequence(all_posts, 1, hist.fetched, 1)
    /\ GroupedBy(all_comments, all_posts)
    /\ Done => /\ IsSubsequence(result.posts, 1, hist.fetched, 1)
               /\ GroupedBy(result.comments, result.posts)

\* C22 happens: a returned run of two feed requests or more that dropped a fetched
\* post, kept two, and collected comments of both.
C22_Witness ==
    /\ Done
    /\ hist.feed_requests >= 2
    /\ Len(result.posts) >= 2
    /\ Len(result.posts) < Len(hist.fetched)
    /\ \E j \in 1..Len(result.comments) :
          result.comments[j].parent_post_id = result.posts[1].id
    /\ \E j \in 1..Len(result.comments) :
          result.comments[j].parent_post_id = result.posts[2].id

\* C23: a feed request is never sent while the feed request before it has had no
\* time.sleep after it, and a comment request never while the comment request
\* before it has had none: a delay lies between any two consecutive feed requests
\* and between any two consecutive comment requests of a run.
C23_DelayBetweenRequests ==
    [][ /\ (\E j \in 1..Len(calls') : calls'[j].method = "wall.get")
               => hist.pending # "wall.get"
        /\ (\E j \in 1..Len(calls') : calls'[j].method = "wall.getComments")
               => hist.pending # "wall.getComments" ]_vars

\* C23 happens: a returned run that sent two feed requests and two comment requests.
C23_Witness == Done /\ hist.feed_requests >= 2 /\ hist.comment_requests >= 2

\* C25: a run whose collection, saving and analysis went through ends in the success
\* state (is_running = False, progress = 100), whichever of start_date and end_date
\* its request gave.
C25_SuccessWhateverTheBounds ==
    [][\A r \in Requests :
          (worker[r] = "analysed" /\ worker'[r] = "finished")
              => parsing_status' = Succeeded(r)]_vars

\* C26: every started run_parsing thread eventually makes its last status update,
\* which sets is_running = False; that update is the success state (progress 100) or
\* the failure state (progress 0 and an error message), nothing else.
C26_EveryRunEnds ==
    /\ \A r \in Requests :
          (worker[r] = "spawned") ~> (worker[r] = "finished" /\ ~parsing_status.is_running)
    /\ [][\A r \in Requests :
             (worker[r] # "finished" /\ worker'[r] = "finished")
                 => parsing_status' \in {Succeeded(r), Failed(r)}]_vars

\* C26 happens: every request was accepted and its run has ended, the last in success.
C26_Witness ==
    /\ \A r \in Requests : worker[r] = "finished"
    /\ \E r \in Requests : parsing_status = Succeeded(r)

\* C27: whenever the status record shows is_running = False, no run_parsing thread
\* has been started and not yet finished.
C27_NotRunningMeansNoActiveRun == ~parsing_status.is_running => ActiveRuns = {}

\* C29: the step by which a start request is rejected, for a run in progress or for
\* a missing access token, starts no thread and changes no field of the status
\* record.
C29_RejectionChangesNothing ==
    [][\A r \in Requests :
          ( /\ handler'[r].at \in {"rejected_running", "rejected_token"}
            /\ handler[r].at # handler'[r].at )
          => /\ worker' = worker
             /\ parsing_status' = parsing_status]_vars

\* C29 happens: a request was rejected for a run in progress, and the run goes on.
C29_Witness ==
    \E r \in Requests :
        /\ handler[r].at = "rejected_running"
        /\ parsing_status.is_running /\ parsing_status.progress > 0

\* C30: a run sends at most max_posts feed requests, none when max_posts is 0, and
\* every pass of the feed loop that is followed by another raises posts_collected,
\* which the while condition keeps below max_posts: the loop ends, whatever the
\* provider returns.
C30_FeedLoopTerminates ==
    /\ [](hist.feed_requests <= max_posts)
    /\ [][(pc = "loop" /\ pc' = "loop") =>
              /\ posts_collected < max_posts
              /\ posts_collected' > posts_collected]_vars

\* C30 happens: a provider that never returned an empty batch, one post per request,
\* and a run that sent max_posts requests and returned.
C30_Witness ==
    /\ Done
    /\ max_posts >= 2
    /\ hist.feed_requests = max_posts
    /\ hist.feed_stop = "budget"

\* C24: analyze_popular_topics and generate_report return without raising on every
\* loaded result, with or without posts and with or without comments.
C24_TopicsNeverRaise ==
    report.fn \in {"analyze_popular_topics", "generate_report"} => ~report.raised

\* C28: create_visualizations on an analyzer that holds a post (and a comment)
\* completes, whatever was called on the analyzer before.
C28_ChartsNeedNoEarlierCall ==
    ( /\ report.fn = "create_visualizations"
      /\ Len(data.posts) >= 1
      /\ Len(data.comments) >= 1 )
    => ~report.raised

====
